---- MODULE Spec2Model ----
(***************************************************************************)
(* SingleApplication: primary election over a named shared memory block   *)
(* and the framed, acknowledged handshake protocol over a local socket.   *)
(*                                                                         *)
(* The specifications of the module:                                      *)
(*   SpecElect   election and teardown of MaxProcs processes              *)
(*   SpecServer  the primary's listener fed by arbitrary peers            *)
(*   SpecLink    connectToPrimary / writeConfirmedMessage against the     *)
(*               primary's listener, with elapsed time                    *)
(*   SpecLive    patient connectors of all secondaries, under fairness    *)
(*   SpecName    genBlockServerName in two configured processes           *)
(*   SpecStale   election with a primary that is killed, and the          *)
(*               connector against its dead listener                      *)
(*   SpecBlock   election, primaryPid / primaryUser and teardown: every   *)
(*               access to the shared block                               *)
(*   SpecPair    a connection that stalls and one accepted later          *)
(*   SpecRetry   SpecLink with a retry of a failed confirmed send         *)
(***************************************************************************)
EXTENDS Integers, Sequences, FiniteSets, TLC

VARIABLES
    \* ---- shared memory region and the processes electing on it
    shmExists,      \* the named region exists (some process is attached)
    attached,       \* processes whose `memory` is attached to the region
    lockOwner,      \* holder of the region's lock, 0 when free
    inst,           \* InstancesInfo: the block's fields
    pc,             \* per process: position in constructor / destructor
    server,         \* per process: server != nullptr (owns the listener)
    instanceNumber, \* per process: SingleApplicationPrivate::instanceNumber
    \* ---- history of the election, for stating the claims
    electOrder,     \* secondaries of the current region, in startSecondary order
    vacant,         \* a primary finished its teardown, nobody tried election since
    firstAfter,     \* per process: it was the first to try election after that
    aloneThen,      \* per process: no other process was alive when it tried
    \* ---- the primary's listener and its connections
    secondaryNotification, \* options & Mode::SecondaryNotification
    listening,      \* a server listens on blockServerName
    cstate,         \* per connection: "none", "backlog", "open", "closed", "gone",
                    \* or "lost" with the primary's process
    info,           \* per connection: its ConnectionInfo in connectionMap
    toSrv,          \* per connection: bytes written by the peer, not yet arrived
    buf,            \* per connection: unread bytes of the server-side socket
    peerClosed,     \* per connection: the peer has closed its end
    ackCount,       \* per connection: ack bytes the server has written
    toCli,          \* per connection: ack bytes the peer has not read yet
    ackLog,         \* per connection, for each unread ack: how many of the
                    \* peer's bytes had arrived when the server wrote it
    started,        \* per connection: instanceStarted signals it caused
    received,       \* per connection: receivedMessage signals, <<id, payload>>
    hsType,         \* per connection: type of its validated handshake, -1 if none
    hsBody,         \* per connection: the bytes read as its handshake body
    written,        \* per connection: all bytes its peer has written
    nsent,          \* per connection: frames its peer has written
    stalled,        \* per connection: a body handler found the frame incomplete
    sent,           \* frames written so far by the peers of SpecServer
    \* ---- the connector of each secondary process (its connection has its index)
    sock,           \* socket: "null", "Unconnected", "Connecting", "Connected", "closed"
    cpc,            \* position: "idle", "loop", "waitConn", "hdrAck", "bodyAck", "done"
    callKind,       \* the running or last call: "none", "connect", "send"
    callType,       \* connectionType of the connectToPrimary call
    msecsArg,       \* its msecs argument
    elapsed,        \* milliseconds since the call started
    waitArg,        \* timeout handed to the wait the call is blocked in
    msg,            \* the message writeConfirmedMessage is sending
    result,         \* what the last call returned: "none", "true", "false"
    startSock,      \* socket state when the call started
    wrote,          \* frames written during the call
    acksRead,       \* ack bytes read during the call
    handshaken,     \* a connectToPrimary call has read both handshake acks
    sends,          \* payload sends started so far
    calls,          \* calls started so far
    \* ---- the derivation of the rendezvous name
    appConfig,      \* per application process: identity strings and options
    derivedName,    \* per application process: its blockServerName, once derived
    \* ---- history
    beforeCrash,    \* the processes launched before the primary crashed
    lastRead        \* per process: what its last primaryPid/primaryUser returned

electVars == <<shmExists, attached, lockOwner, inst, pc, server, instanceNumber,
               electOrder, vacant, firstAfter, aloneThen>>

srvVars == <<secondaryNotification, listening, cstate, info, toSrv, buf,
             peerClosed, ackCount, toCli, ackLog, started, received, hsType, hsBody,
             written, nsent, stalled, sent>>

cliVars == <<sock, cpc, callKind, callType, msecsArg, elapsed, waitArg, msg,
             result, startSock, wrote, acksRead, handshaken, sends, calls>>

nameVars == <<appConfig, derivedName>>

historyVars == <<beforeCrash, lastRead>>

vars == <<electVars, srvVars, cliVars, nameVars, historyVars>>

------------------------------------------------------------------------------
(* Bounds *)
MaxProcs == 3
MaxSends == 5
MaxPart == 4
MaxCalls == 2

Procs == 1..MaxProcs

------------------------------------------------------------------------------
(* Checksum utility.  qChecksum is the library's 16-bit checksum; the model *)
(* uses a 16-bit positional checksum with the same signature: a pure        *)
(* function of the byte sequence, seeded with 0xffff and complemented.      *)
qChecksum(bytes) ==
    LET F[i \in 0..Len(bytes)] ==
            IF i = 0 THEN 65535 ELSE (F[i - 1] * 31 + bytes[i] + 1) % 65536
    IN  65535 - F[Len(bytes)]

\* getUsername(): the one OS user of the model
getUsername == 1

\* the bytes of the block that precede its checksum field
BlockBytes(b) ==
    <<(IF b.primary THEN 1 ELSE 0), b.secondary, b.primaryPid + 1, b.primaryUser>>

blockChecksum(b) == qChecksum(BlockBytes(b))

\* a freshly created region is zero-filled
ZeroBlock ==
    [primary |-> FALSE, secondary |-> 0, primaryPid |-> 0, primaryUser |-> 0,
     checksum |-> 0]

initializeMemoryBlock(b) ==
    LET b1 == [b EXCEPT !.primary = FALSE, !.secondary = 0,
                        !.primaryPid = -1, !.primaryUser = 0]
    IN  [b1 EXCEPT !.checksum = blockChecksum(b1)]

\* a mutant of startPrimary: the block is written but no listener is created
startPrimary_noServer(p, b) ==
    LET b1 == [b EXCEPT !.primary = TRUE, !.primaryPid = p,
                        !.primaryUser = getUsername]
    IN  /\ inst' = [b1 EXCEPT !.checksum = blockChecksum(b1)]
        /\ instanceNumber' = [instanceNumber EXCEPT ![p] = 0]
        /\ server' = server

\* startPrimary on block contents b: fields, checksum, instanceNumber 0, and
\* a new server listening on blockServerName
startPrimary(p, b) ==
    LET b1 == [b EXCEPT !.primary = TRUE, !.primaryPid = p,
                        !.primaryUser = getUsername]
    IN  /\ inst' = [b1 EXCEPT !.checksum = blockChecksum(b1)]
        /\ instanceNumber' = [instanceNumber EXCEPT ![p] = 0]
        /\ server' = [server EXCEPT ![p] = TRUE]

\* a mutant of startSecondary: instanceNumber is read before the increment
startSecondary_preIncrement(p) ==
    LET b1 == [inst EXCEPT !.secondary = inst.secondary + 1]
    IN  /\ inst' = [b1 EXCEPT !.checksum = blockChecksum(b1)]
        /\ instanceNumber' = [instanceNumber EXCEPT ![p] = inst.secondary]

\* a mutant of startSecondary: the checksum is not recomputed
startSecondary_staleChecksum(p) ==
    /\ inst' = [inst EXCEPT !.secondary = inst.secondary + 1]
    /\ instanceNumber' = [instanceNumber EXCEPT ![p] = inst'.secondary]

\* startSecondary: increment, checksum, instanceNumber = the incremented count
startSecondary(p) ==
    LET b1 == [inst EXCEPT !.secondary = inst.secondary + 1]
    IN  /\ inst' = [b1 EXCEPT !.checksum = blockChecksum(b1)]
        /\ instanceNumber' = [instanceNumber EXCEPT ![p] = inst'.secondary]

\* a mutant of the destructor: the memory object is leaked, so the process
\* stays attached and the region outlives it
Destructor_leakMemory(p) ==
    /\ IF server[p]
       THEN LET b1 == [inst EXCEPT !.primary = FALSE, !.primaryPid = -1,
                                   !.primaryUser = 0]
            IN  /\ inst' = [b1 EXCEPT !.checksum = blockChecksum(b1)]
                /\ server' = [server EXCEPT ![p] = FALSE]
       ELSE UNCHANGED <<inst, server>>
    /\ lockOwner' = 0
    /\ UNCHANGED <<attached, shmExists>>

\* a mutant of the destructor: the primary's pid stays in the block
Destructor_keepPid(p) ==
    /\ IF server[p]
       THEN LET b1 == [inst EXCEPT !.primary = FALSE, !.primaryUser = 0]
            IN  /\ inst' = [b1 EXCEPT !.checksum = blockChecksum(b1)]
                /\ server' = [server EXCEPT ![p] = FALSE]
       ELSE UNCHANGED <<inst, server>>
    /\ lockOwner' = 0
    /\ attached' = attached \ {p}
    /\ shmExists' = (attached' # {})

\* ~SingleApplicationPrivate, from the point where memory->lock() returned:
\* a process with a server closes it and resets the block; then unlock and
\* delete memory, which detaches and releases the region with the last
\* attached process
Destructor(p) ==
    /\ IF server[p]
       THEN LET b1 == [inst EXCEPT !.primary = FALSE, !.primaryPid = -1,
                                   !.primaryUser = 0]
            IN  /\ inst' = [b1 EXCEPT !.checksum = blockChecksum(b1)]
                /\ server' = [server EXCEPT ![p] = FALSE]
       ELSE UNCHANGED <<inst, server>>
    /\ lockOwner' = 0
    /\ attached' = attached \ {p}
    /\ shmExists' = (attached' # {})

------------------------------------------------------------------------------
(* Election (section 4.2 of the specification: the constructor that calls   *)
(* initializeMemoryBlock / startPrimary / startSecondary under the lock).   *)

Alive(q) == pc[q] \notin {"init", "exited", "crashed"}

\* bookkeeping of "the next process to try election after a clean exit"
NoteAttempt(p) ==
    /\ vacant' = FALSE
    /\ firstAfter' = [firstAfter EXCEPT ![p] = vacant]
    /\ aloneThen' = [aloneThen EXCEPT ![p] = \A q \in Procs \ {p} : ~Alive(q)]

\* create(size) succeeds: this process is the creator; it takes the lock
Create(p) ==
    /\ pc[p] = "init"
    /\ ~shmExists
    /\ shmExists' = TRUE
    /\ attached' = {p}
    /\ lockOwner' = p
    /\ inst' = ZeroBlock
    /\ electOrder' = <<>>
    /\ pc' = [pc EXCEPT ![p] = "creator"]
    /\ NoteAttempt(p)
    /\ UNCHANGED <<server, instanceNumber>>

\* create fails with AlreadyExists: attach to the existing region
Attach(p) ==
    /\ pc[p] = "init"
    /\ shmExists
    /\ attached' = attached \cup {p}
    /\ pc' = [pc EXCEPT ![p] = "attached"]
    /\ NoteAttempt(p)
    /\ UNCHANGED <<shmExists, lockOwner, inst, server, instanceNumber, electOrder>>

\* the creator initialises the block and finalises it as primary
ElectPrimary(p) ==
    /\ pc[p] = "creator"
    /\ lockOwner = p
    /\ startPrimary(p, initializeMemoryBlock(inst))
    /\ pc' = [pc EXCEPT ![p] = "primaryLocked"]
    /\ UNCHANGED <<shmExists, attached, lockOwner, electOrder, vacant,
                   firstAfter, aloneThen>>

\* an attached process takes the block's lock
Lock(p) ==
    /\ pc[p] = "attached"
    /\ lockOwner = 0
    /\ lockOwner' = p
    /\ pc' = [pc EXCEPT ![p] = "locked"]
    /\ UNCHANGED <<shmExists, attached, inst, server, instanceNumber,
                   electOrder, vacant, firstAfter, aloneThen>>

\* under the lock the attached process registers as a secondary
ElectSecondary(p) ==
    /\ pc[p] = "locked"
    /\ lockOwner = p
    /\ startSecondary(p)
    /\ electOrder' = Append(electOrder, p)
    /\ pc' = [pc EXCEPT ![p] = "secondaryLocked"]
    /\ UNCHANGED <<shmExists, attached, lockOwner, server, vacant,
                   firstAfter, aloneThen>>

\* the election ends with memory->unlock()
Unlock(p) ==
    /\ pc[p] \in {"primaryLocked", "secondaryLocked"}
    /\ lockOwner = p
    /\ lockOwner' = 0
    /\ pc' = [pc EXCEPT ![p] = IF pc[p] = "primaryLocked" THEN "primary"
                                                         ELSE "secondary"]
    /\ UNCHANGED <<shmExists, attached, inst, server, instanceNumber,
                   electOrder, vacant, firstAfter, aloneThen>>

\* a mutant of the destructor's lock: it does not wait for the holder
DtorLock_noWait(p) ==
    /\ pc[p] \in {"primary", "secondary"}
    /\ lockOwner' = p
    /\ pc' = [pc EXCEPT ![p] = "dtor"]
    /\ UNCHANGED <<shmExists, attached, inst, server, instanceNumber,
                   electOrder, vacant, firstAfter, aloneThen>>

\* the destructor's memory->lock()
DtorLock(p) ==
    /\ pc[p] \in {"primary", "secondary"}
    /\ lockOwner = 0
    /\ lockOwner' = p
    /\ pc' = [pc EXCEPT ![p] = "dtor"]
    /\ UNCHANGED <<shmExists, attached, inst, server, instanceNumber,
                   electOrder, vacant, firstAfter, aloneThen>>

\* the rest of the destructor
DtorFinish(p) ==
    /\ pc[p] = "dtor"
    /\ lockOwner = p
    /\ Destructor(p)
    /\ vacant' = (vacant \/ server[p])
    /\ pc' = [pc EXCEPT ![p] = "exited"]
    /\ UNCHANGED <<instanceNumber, electOrder, firstAfter, aloneThen>>

\* the primary terminates without running its destructor (hard kill): the
\* block is left as it is and the listener is gone.  The system detaches the
\* dead process; a region somebody else is attached to stays, one nobody is
\* attached to stays or is released, depending on the platform (kept).
Crash(p, kept) ==
    /\ pc[p] = "primary"
    /\ beforeCrash = {}
    /\ beforeCrash' = {q \in Procs : pc[q] # "init"}
    /\ UNCHANGED lastRead
    /\ pc' = [pc EXCEPT ![p] = "crashed"]
    /\ server' = [server EXCEPT ![p] = FALSE]
    /\ attached' = attached \ {p}
    /\ shmExists' = (attached' # {} \/ kept)
    /\ UNCHANGED <<lockOwner, inst, instanceNumber, electOrder, vacant,
                   firstAfter, aloneThen>>

\* primaryPid() and primaryUser() up to the return of memory->lock()
ReadLock(p, f) ==
    /\ pc[p] \in {"primary", "secondary"}
    /\ f \in {"readPid", "readUser"}
    /\ lockOwner = 0
    /\ lockOwner' = p
    /\ pc' = [pc EXCEPT ![p] = f]
    /\ UNCHANGED <<shmExists, attached, inst, server, instanceNumber,
                   electOrder, vacant, firstAfter, aloneThen, lastRead>>

\* the process is back in its event loop
Resume(p) == pc' = [pc EXCEPT ![p] = IF server[p] THEN "primary" ELSE "secondary"]

\* primaryPid(): the field is read, then memory->unlock()
primaryPid(p) ==
    /\ pc[p] = "readPid"
    /\ lastRead' = [lastRead EXCEPT ![p] = <<"pid", inst.primaryPid>>]
    /\ lockOwner' = 0
    /\ Resume(p)
    /\ UNCHANGED <<shmExists, attached, inst, server, instanceNumber,
                   electOrder, vacant, firstAfter, aloneThen>>

\* primaryUser(): the field is read, then memory->unlock()
primaryUser(p) ==
    /\ pc[p] = "readUser"
    /\ lastRead' = [lastRead EXCEPT ![p] = <<"user", inst.primaryUser>>]
    /\ lockOwner' = 0
    /\ Resume(p)
    /\ UNCHANGED <<shmExists, attached, inst, server, instanceNumber,
                   electOrder, vacant, firstAfter, aloneThen>>

------------------------------------------------------------------------------
(* The wire format: QDataStream's big-endian integers and length-prefixed   *)
(* byte arrays.  A byte is a number in 0..255.                              *)

\* one connection per secondary process; the last process is the primary
Conns == 1..(MaxProcs - 1)

\* SpecServer watches one connection, whose peer is arbitrary
Peers == {1}

\* enum class ConnectionType
InvalidConnection == 0
NewInstance == 1
SecondaryInstance == 2
Reconnect == 3

\* enum class ConnectionStage
StageInitHeader == 0
StageInitBody == 1
StageConnectedHeader == 2
StageConnectedBody == 3

\* sizeof(quint64), the length of a header frame
HeaderSize == 8
\* sizeof(quint16), the length of the handshake's checksum field
ChecksumSize == 2
\* the acknowledgement byte '\n'
AckByte == 10

\* blockServerName of this primary, and the name of some other application
blockServerName == <<65>>
otherServerName == <<66>>

\* the element of a one-element set
The(S) == CHOOSE x \in S : TRUE

RECURSIVE BE(_, _)
\* n as w big-endian bytes
BE(n, w) == IF w = 0 THEN <<>> ELSE Append(BE(n \div 256, w - 1), n % 256)

RECURSIVE BEValue(_)
\* the number whose big-endian bytes are b
BEValue(b) ==
    IF Len(b) = 0 THEN 0
    ELSE BEValue(SubSeq(b, 1, Len(b) - 1)) * 256 + b[Len(b)]

\* headerStream << static_cast<quint64>(msg.length())
HeaderOf(m) == BE(Len(m), HeaderSize)

\* the initialisation message of connectToPrimary
InitMessage(name, connectionType, instanceId) ==
    LET pre == BE(Len(name), 4) \o name \o <<connectionType>> \o BE(instanceId, 4)
    IN  pre \o BE(qChecksum(pre), ChecksumSize)

\* n < static_cast<qint64>(len8), for 0 <= n < 2^24 and len8 the eight
\* big-endian bytes read into quint64 msgLen and stored in qint64 info.msgLen
LessThanInt64(n, len8) ==
    IF len8[1] >= 128 THEN FALSE
    ELSE IF \E i \in 1..5 : len8[i] # 0 THEN TRUE
    ELSE n < BEValue(SubSeq(len8, 6, 8))

\* len8 <= n with len8 read as the unsigned 64-bit length it announces
UnsignedAtMost(len8, n) ==
    /\ \A i \in 1..5 : len8[i] = 0
    /\ BEValue(SubSeq(len8, 6, 8)) <= n

\* ConnectionInfo()
NewConnectionInfo ==
    [msgLen |-> BE(0, HeaderSize), instanceId |-> 0, stage |-> StageInitHeader]

------------------------------------------------------------------------------
(* The primary's handlers.  Each yields the effect of one call on one       *)
(* connection: the new ConnectionInfo, the unread bytes left, the acks      *)
(* written, the signals raised, and whether the socket was closed.          *)

Effect(i, b) ==
    [info |-> i, buf |-> b, acks |-> 0, started |-> 0, recv |-> <<>>,
     closed |-> FALSE, hs |-> -1, body |-> <<>>, stalled |-> FALSE]

\* a mutant of readMessageHeader: the header is taken but not acknowledged
readMessageHeader_noAck(i, b, nextStage) ==
    IF Len(b) < HeaderSize THEN Effect(i, b)
    ELSE Effect([i EXCEPT !.stage = nextStage,
                          !.msgLen = SubSeq(b, 1, HeaderSize)],
                SubSeq(b, HeaderSize + 1, Len(b)))

\* readMessageHeader(sock, nextStage) with unread bytes b
readMessageHeader(i, b, nextStage) ==
    IF Len(b) < HeaderSize THEN Effect(i, b)
    ELSE [Effect([i EXCEPT !.stage = nextStage,
                           !.msgLen = SubSeq(b, 1, HeaderSize)],
                 SubSeq(b, HeaderSize + 1, Len(b)))
            EXCEPT !.acks = 1]

\* isFrameComplete(sock)
isFrameComplete(i, b) == ~LessThanInt64(Len(b), i.msgLen)

\* slotDataAvailable(dataSocket, instanceId)
slotDataAvailable(i, b, instanceId) ==
    IF ~isFrameComplete(i, b) THEN [Effect(i, b) EXCEPT !.stalled = TRUE]
    ELSE [Effect([i EXCEPT !.stage = StageConnectedHeader], <<>>)
            EXCEPT !.recv = <<<<instanceId, b>>>>, !.acks = 1]

\* a mutant of slotClientConnectionClosed: unread bytes are dropped
slotClientConnectionClosed_noDrain(i, b, instanceId) == Effect(i, b)

\* slotClientConnectionClosed(closedSocket, instanceId)
slotClientConnectionClosed(i, b, instanceId) ==
    IF Len(b) > 0 THEN slotDataAvailable(i, b, instanceId) ELSE Effect(i, b)

\* sock->close(): aboutToClose runs slotClientConnectionClosed, then the
\* socket is closed and its unread bytes are dropped
closeSocket(i, b) ==
    [slotClientConnectionClosed(i, b, i.instanceId)
        EXCEPT !.closed = TRUE, !.buf = <<>>]

\* what readStream >> latin1Name >> connTypeVal >> instanceId >> msgChecksum
\* reads from msgBytes; ok is readStream.status() == QDataStream::Ok
ParseInitMessage(b) ==
    LET bad == [ok |-> FALSE, name |-> <<>>, type |-> InvalidConnection,
                id |-> 0, checksum |-> 0]
    IN  IF Len(b) < 4 THEN bad
        ELSE LET isNull == \A k \in 1..4 : b[k] = 255
                 huge == ~isNull /\ (b[1] # 0 \/ b[2] # 0)
                 n == IF isNull \/ huge THEN 0 ELSE BEValue(SubSeq(b, 3, 4))
             IN  IF huge \/ Len(b) < 4 + n + 1 + 4 + ChecksumSize THEN bad
                 ELSE [ok |-> TRUE,
                       name |-> SubSeq(b, 5, 4 + n),
                       type |-> b[5 + n],
                       id |-> BEValue(SubSeq(b, 6 + n, 9 + n)),
                       checksum |-> BEValue(SubSeq(b, 10 + n, 11 + n))]

\* static_cast<quint32>(msgBytes.length() - sizeof(quint16)), as the four
\* big-endian bytes of the quint32: the difference wraps around below zero
ChecksumLength(b) == BE(Len(b) - ChecksumSize, 4)

\* the quint32 len4 is at most n, for 0 <= n < 2^16
WithinBytes(len4, n) ==
    /\ len4[1] = 0
    /\ len4[2] = 0
    /\ BEValue(SubSeq(len4, 3, 4)) <= n

\* qChecksum over the first ChecksumLength(b) bytes of msgBytes, when these
\* lie within msgBytes; when they do not the read runs past the end of the
\* array: the body is then too short to parse, and the call either rejects
\* it whatever the checksum read or ends the process (ChecksumOverrun)
actualChecksum(b) == qChecksum(SubSeq(b, 1, Len(b) - ChecksumSize))

\* a mutant of the condition: the SecondaryNotification option is not consulted
NotifiesOwner_ignoreOption(connectionType) ==
    \/ connectionType = NewInstance
    \/ connectionType = SecondaryInstance

\* the condition under which a validated handshake raises instanceStarted
NotifiesOwner(connectionType) ==
    \/ connectionType = NewInstance
    \/ connectionType = SecondaryInstance /\ secondaryNotification

\* readInitMessageBody(sock) with unread bytes b
readInitMessageBody(i, b) ==
    IF ~isFrameComplete(i, b) THEN [Effect(i, b) EXCEPT !.stalled = TRUE]
    ELSE The({ LET isValid == /\ m.ok
                              /\ m.name = blockServerName
                              /\ m.checksum = actualChecksum(b)
               IN  IF ~isValid
                   THEN [closeSocket(i, <<>>) EXCEPT !.body = b]
                   ELSE [Effect([i EXCEPT !.instanceId = m.id,
                                          !.stage = StageConnectedHeader], <<>>)
                           EXCEPT !.started = IF NotifiesOwner(m.type) THEN 1
                                                                      ELSE 0,
                                  !.acks = 1, !.hs = m.type, !.body = b]
               : m \in {ParseInitMessage(b)} })

\* the readyRead lambda of slotConnectionEstablished
readyRead(i, b) ==
    CASE i.stage = StageInitHeader -> readMessageHeader(i, b, StageInitBody)
      [] i.stage = StageInitBody -> readInitMessageBody(i, b)
      [] i.stage = StageConnectedHeader ->
            readMessageHeader(i, b, StageConnectedBody)
      [] i.stage = StageConnectedBody -> slotDataAvailable(i, b, i.instanceId)
      [] OTHER -> Effect(i, b)

\* a mutant of the handlers: all connections share one ConnectionInfo
Apply_sharedInfo(c, e, st) ==
    /\ info' = [d \in Conns |-> e.info]
    /\ buf' = [buf EXCEPT ![c] = e.buf]
    /\ ackCount' = [ackCount EXCEPT ![c] = @ + e.acks]
    /\ toCli' = [toCli EXCEPT ![c] = IF st = "open" THEN @ + e.acks ELSE @]
    /\ started' = [started EXCEPT ![c] = @ + e.started]
    /\ received' = [received EXCEPT ![c] = @ \o e.recv]
    /\ hsType' = [hsType EXCEPT ![c] = IF e.hs # -1 THEN e.hs ELSE @]
    /\ hsBody' = [hsBody EXCEPT ![c] = IF e.body # <<>> THEN e.body ELSE @]
    /\ stalled' = [stalled EXCEPT ![c] = @ \/ e.stalled]
    /\ cstate' = [cstate EXCEPT ![c] = st]

\* the effect e of a handler on connection c, with the socket ending in state st
Apply(c, e, st) ==
    /\ info' = [info EXCEPT ![c] = e.info]
    /\ buf' = [buf EXCEPT ![c] = e.buf]
    /\ ackCount' = [ackCount EXCEPT ![c] = @ + e.acks]
    /\ toCli' = [toCli EXCEPT ![c] = IF st = "open" THEN @ + e.acks ELSE @]
    /\ started' = [started EXCEPT ![c] = @ + e.started]
    /\ received' = [received EXCEPT ![c] = @ \o e.recv]
    /\ hsType' = [hsType EXCEPT ![c] = IF e.hs # -1 THEN e.hs ELSE @]
    /\ hsBody' = [hsBody EXCEPT ![c] = IF e.body # <<>> THEN e.body ELSE @]
    /\ stalled' = [stalled EXCEPT ![c] = @ \/ e.stalled]
    /\ cstate' = [cstate EXCEPT ![c] = st]

\* slotConnectionEstablished: the listener takes the next pending connection
slotConnectionEstablished(c) ==
    /\ listening
    /\ cstate[c] = "backlog"
    /\ cstate' = [cstate EXCEPT ![c] = "open"]
    /\ info' = [info EXCEPT ![c] = NewConnectionInfo]
    /\ UNCHANGED <<secondaryNotification, listening, toSrv, buf, peerClosed,
                   ackCount, toCli, ackLog, started, received, hsType, hsBody,
                   written, nsent, stalled, sent>>

\* the acks of effect e on connection c are written when `arrived` of the
\* peer's bytes have reached the server
LogAcks(c, e, st, arrived) ==
    ackLog' = [ackLog EXCEPT ![c] =
                  IF st = "open" THEN @ \o [j \in 1..e.acks |-> arrived]
                  ELSE @]

\* n more bytes arrive on connection c and its readyRead handler runs
DataArrives(c, n) ==
    /\ cstate[c] = "open"
    /\ n \in 1..Len(toSrv[c])
    /\ \E e \in {readyRead(info[c], buf[c] \o SubSeq(toSrv[c], 1, n))} :
          /\ Apply(c, e, IF e.closed THEN "closed" ELSE "open")
          /\ LogAcks(c, e, IF e.closed THEN "closed" ELSE "open",
                     Len(written[c]) - Len(toSrv[c]) + n)
          /\ toSrv' = [toSrv EXCEPT ![c] =
                          IF e.closed THEN <<>>
                          ELSE SubSeq(toSrv[c], n + 1, Len(toSrv[c]))]
    /\ UNCHANGED <<secondaryNotification, listening, peerClosed, written,
                   nsent, sent>>

\* n more bytes arrive on connection c and complete a handshake body that is
\* shorter than its checksum field: the checksum is computed over a length
\* that wrapped around, and the read past the end of msgBytes ends the
\* primary's process; its listener and its sockets go with it
ChecksumOverrun(c, n) ==
    /\ cstate[c] = "open"
    /\ n \in 1..Len(toSrv[c])
    /\ info[c].stage = StageInitBody
    /\ \E b \in {buf[c] \o SubSeq(toSrv[c], 1, n)} :
          /\ isFrameComplete(info[c], b)
          /\ ~WithinBytes(ChecksumLength(b), Len(b))
          /\ hsBody' = [hsBody EXCEPT ![c] = b]
    /\ listening' = FALSE
    /\ cstate' = [d \in Conns |-> IF cstate[d] \in {"none", "gone"} THEN cstate[d]
                                   ELSE "lost"]
    /\ toSrv' = [d \in Conns |-> <<>>]
    /\ buf' = [d \in Conns |-> <<>>]
    /\ UNCHANGED <<secondaryNotification, info, peerClosed, ackCount, toCli,
                   ackLog, started, received, hsType, written, nsent, stalled,
                   sent>>

\* the peer's end is closed and everything it wrote has arrived: the socket
\* is disconnected and deleted, which raises aboutToClose and then destroyed
Disconnected(c) ==
    /\ cstate[c] = "open"
    /\ peerClosed[c]
    /\ toSrv[c] = <<>>
    /\ \E e \in {closeSocket(info[c], buf[c])} :
          /\ Apply(c, e, "gone")
          /\ LogAcks(c, e, "gone", Len(written[c]))
    /\ UNCHANGED <<secondaryNotification, listening, toSrv, peerClosed,
                   written, nsent, sent>>

\* a socket the server closed itself is deleted: destroyed removes its entry
Destroyed(c) ==
    /\ cstate[c] = "closed"
    /\ cstate' = [cstate EXCEPT ![c] = "gone"]
    /\ UNCHANGED <<secondaryNotification, listening, info, toSrv, buf,
                   peerClosed, ackCount, toCli, ackLog, started, received, hsType,
                   hsBody, written, nsent, stalled, sent>>

\* ---- the peers of SpecServer.  A peer writes header and body frames in
\* turn: any header of the menu, any handshake body of the menu as its first
\* body, payloads afterwards.  It waits for no ack and may close at any time.

\* a handshake body whose checksum field was altered
Tampered(m) == [m EXCEPT ![Len(m)] = (@ + 1) % 256]

\* a header announcing 2^63 bytes
HugeHeader == <<128, 0, 0, 0, 0, 0, 0, 0>>

\* the first bytes of a header whose rest is never written
ShortHeader == <<0, 0, 0>>

PeerPayload == <<7, 10, 0, 7>>

\* a handshake body shorter than its checksum field
ShortBody == <<0>>

PeerHandshakes(c) ==
    {InitMessage(blockServerName, t, c) :
        t \in {InvalidConnection, NewInstance, SecondaryInstance, Reconnect}}
    \cup {Tampered(InitMessage(blockServerName, NewInstance, c)),
          InitMessage(otherServerName, NewInstance, c), ShortBody}

PeerHeaders(c) ==
    {HeaderOf(<<>>), HeaderOf(PeerPayload),
     HeaderOf(InitMessage(blockServerName, NewInstance, c)), HugeHeader,
     ShortHeader}

\* what a peer may write as its k-th frame
PeerFrames(c, k) ==
    IF k % 2 = 1 THEN PeerHeaders(c)
    ELSE IF k = 2 THEN PeerHandshakes(c)
    ELSE {PeerPayload}

\* in how many bytes the next part of the in-flight data may arrive
ArrivalSizes(c) ==
    {n \in 1..Len(toSrv[c]) : n = Len(toSrv[c]) \/ n = MaxPart}

PeerConnect(c) ==
    /\ listening
    /\ cstate[c] = "none"
    /\ cstate' = [cstate EXCEPT ![c] = "backlog"]
    /\ UNCHANGED <<secondaryNotification, listening, info, toSrv, buf,
                   peerClosed, ackCount, toCli, ackLog, started, received, hsType,
                   hsBody, written, nsent, stalled, sent>>

PeerSend(c, f) ==
    /\ cstate[c] \in {"backlog", "open"}
    /\ ~peerClosed[c]
    /\ sent < MaxSends
    /\ sent' = sent + 1
    /\ nsent' = [nsent EXCEPT ![c] = @ + 1]
    /\ toSrv' = [toSrv EXCEPT ![c] = @ \o f]
    /\ written' = [written EXCEPT ![c] = @ \o f]
    /\ UNCHANGED <<secondaryNotification, listening, cstate, info, buf,
                   peerClosed, ackCount, toCli, ackLog, started, received, hsType,
                   hsBody, stalled>>

PeerClose(c) ==
    /\ cstate[c] \in {"backlog", "open"}
    /\ ~peerClosed[c]
    /\ peerClosed' = [peerClosed EXCEPT ![c] = TRUE]
    /\ UNCHANGED <<secondaryNotification, listening, cstate, info, toSrv, buf,
                   ackCount, toCli, ackLog, started, received, hsType, hsBody,
                   written, nsent, stalled, sent>>

------------------------------------------------------------------------------
(* The connector of a secondary: connectToPrimary and the confirmed send.   *)
(* A call blocks in waitForConnected and in waitForReadyRead; each action   *)
(* runs the code from one blocking point to the next.  Time passes in       *)
(* randomSleep, in a wait that times out, and while an ack is late.         *)

\* randomSleep sleeps between SleepMin and SleepMax milliseconds
SleepMin == 8
SleepMax == 17
Sleeps == {SleepMin, SleepMax}

\* the msecs arguments of the timed calls
Timeouts == {0, SleepMin - 1, SleepMax + SleepMin}

\* how late an ack may be
AckDelay == 3
AckDelays == {0, AckDelay}

\* the msecs argument of a patient caller
Patient == 500

\* the payloads a secondary sends
Payloads == {<<>>, PeerPayload}

ConnectionTypes == {NewInstance, SecondaryInstance, Reconnect}

\* what the server side keeps while only the connector acts
ServerIdle ==
    UNCHANGED <<secondaryNotification, listening, info, buf, ackCount,
                started, received, hsType, hsBody, nsent, stalled, sent>>

\* socket->write(bytes); socket->flush()
Write(k, bytes) ==
    /\ toSrv' = [toSrv EXCEPT ![k] = @ \o bytes]
    /\ written' = [written EXCEPT ![k] = @ \o bytes]

\* the call returns r
Return(k, r) ==
    /\ cpc' = [cpc EXCEPT ![k] = "done"]
    /\ result' = [result EXCEPT ![k] = r]

\* the timeout writeConfirmedFrame hands to waitForReadyRead when the call
\* with argument ms has run for el milliseconds
FrameTimeout(ms, el) == ms - el

\* writeConfirmedMessage up to its first wait: the header frame is written
\* and the call blocks for its ack
writeConfirmedMessage(k, m, ms, el) ==
    /\ msg' = [msg EXCEPT ![k] = m]
    /\ Write(k, HeaderOf(m))
    /\ wrote' = [wrote EXCEPT ![k] = 1]
    /\ waitArg' = [waitArg EXCEPT ![k] = FrameTimeout(ms, el)]
    /\ cpc' = [cpc EXCEPT ![k] = "hdrAck"]
    /\ result' = [result EXCEPT ![k] = "none"]

\* a mutant of connectToPrimary: the call that gives up returns true
AfterAttempt_giveUpTrue(k, s, el) ==
    /\ sock' = [sock EXCEPT ![k] = s]
    /\ elapsed' = [elapsed EXCEPT ![k] = el]
    /\ IF s = "Connected"
       THEN /\ cstate' = [cstate EXCEPT ![k] = "backlog"]
            /\ \E initMsg \in {InitMessage(blockServerName, callType[k],
                                            instanceNumber[k])} :
                  writeConfirmedMessage(k, initMsg, msecsArg[k], el)
       ELSE /\ IF el >= msecsArg[k]
               THEN Return(k, "true")
               ELSE /\ cpc' = [cpc EXCEPT ![k] = "loop"]
                    /\ UNCHANGED result
            /\ UNCHANGED <<cstate, toSrv, written, msg, wrote, waitArg>>

\* connectToPrimary after a connection attempt that left the socket in
\* state s at time el: handshake if connected, else give up or loop
AfterAttempt(k, s, el) ==
    /\ sock' = [sock EXCEPT ![k] = s]
    /\ elapsed' = [elapsed EXCEPT ![k] = el]
    /\ IF s = "Connected"
       THEN /\ cstate' = [cstate EXCEPT ![k] = "backlog"]
            /\ \E initMsg \in {InitMessage(blockServerName, callType[k],
                                            instanceNumber[k])} :
                  writeConfirmedMessage(k, initMsg, msecsArg[k], el)
       ELSE /\ IF el >= msecsArg[k]
               THEN Return(k, "false")
               ELSE /\ cpc' = [cpc EXCEPT ![k] = "loop"]
                    /\ UNCHANGED result
            /\ UNCHANGED <<cstate, toSrv, written, msg, wrote, waitArg>>

\* connectToPrimary(ms, t) is called
CallConnect(k, ms, t) ==
    /\ pc[k] = "secondary"
    /\ cpc[k] \in {"idle", "done"}
    /\ sock[k] # "closed"
    /\ calls[k] < MaxCalls
    /\ calls' = [calls EXCEPT ![k] = @ + 1]
    /\ callKind' = [callKind EXCEPT ![k] = "connect"]
    /\ callType' = [callType EXCEPT ![k] = t]
    /\ msecsArg' = [msecsArg EXCEPT ![k] = ms]
    /\ elapsed' = [elapsed EXCEPT ![k] = 0]
    /\ startSock' = [startSock EXCEPT ![k] = sock[k]]
    /\ wrote' = [wrote EXCEPT ![k] = 0]
    /\ acksRead' = [acksRead EXCEPT ![k] = 0]
    /\ IF sock[k] = "Connected"
       THEN /\ Return(k, "true")
            /\ UNCHANGED sock
       ELSE /\ cpc' = [cpc EXCEPT ![k] = "loop"]
            /\ result' = [result EXCEPT ![k] = "none"]
            /\ sock' = [sock EXCEPT ![k] =
                           IF @ = "null" THEN "Unconnected" ELSE @]
    /\ UNCHANGED <<waitArg, msg, handshaken, sends>>
    /\ UNCHANGED <<cstate, toSrv, written, toCli, ackLog, peerClosed>>
    /\ ServerIdle

\* how connectToServer may leave the socket
ConnectOutcomes(k) ==
    IF listening /\ cstate[k] = "none"
    THEN {"Connected", "Connecting"}
    ELSE {"Unconnected"}

\* one pass of the loop up to its wait: randomSleep of d milliseconds,
\* connectToServer unless still connecting, and, if then connecting,
\* waitForConnected with what remains of the budget
LoopStep(k, d, s) ==
    /\ cpc[k] = "loop"
    /\ s \in (IF sock[k] = "Connecting" THEN {"Connecting"}
              ELSE ConnectOutcomes(k))
    /\ IF s = "Connecting"
       THEN /\ sock' = [sock EXCEPT ![k] = s]
            /\ elapsed' = [elapsed EXCEPT ![k] = @ + d]
            /\ waitArg' = [waitArg EXCEPT ![k] = msecsArg[k] - elapsed'[k]]
            /\ cpc' = [cpc EXCEPT ![k] = "waitConn"]
            /\ UNCHANGED <<cstate, toSrv, written, msg, wrote, result>>
       ELSE AfterAttempt(k, s, elapsed[k] + d)
    /\ UNCHANGED <<callKind, callType, msecsArg, startSock, acksRead,
                   handshaken, sends, calls>>
    /\ UNCHANGED <<toCli, ackLog, peerClosed>>
    /\ ServerIdle

\* waitForConnected returns with the socket connected
WaitConnected(k) ==
    /\ cpc[k] = "waitConn"
    /\ listening
    /\ cstate[k] = "none"
    /\ AfterAttempt(k, "Connected", elapsed[k])
    /\ UNCHANGED <<callKind, callType, msecsArg, startSock, acksRead,
                   handshaken, sends, calls>>
    /\ UNCHANGED <<toCli, ackLog, peerClosed>>
    /\ ServerIdle

\* a wait with timeout t can expire: not with t = -1, which waits forever;
\* what another negative t does depends on the build
CanExpire(t) == t # -1

\* the time a wait with timeout t takes to expire
Expiry(t) == IF t > 0 THEN t ELSE 0

\* waitForConnected times out with the socket still connecting
WaitConnectedTimeout(k) ==
    /\ cpc[k] = "waitConn"
    /\ CanExpire(waitArg[k])
    /\ AfterAttempt(k, "Connecting", elapsed[k] + Expiry(waitArg[k]))
    /\ UNCHANGED <<callKind, callType, msecsArg, startSock, acksRead,
                   handshaken, sends, calls>>
    /\ UNCHANGED <<toCli, ackLog, peerClosed>>
    /\ ServerIdle

\* writeConfirmedFrame's waitForReadyRead returns true d milliseconds into
\* the wait: the ack is read; after the header's ack the body frame is
\* written and the call blocks again, after the body's ack it returns true
ReadAck(k, d) ==
    /\ cpc[k] \in {"hdrAck", "bodyAck"}
    /\ toCli[k] > 0
    /\ d = 0 \/ waitArg[k] < 0 \/ d <= waitArg[k]
    /\ toCli' = [toCli EXCEPT ![k] = @ - 1]
    /\ ackLog' = [ackLog EXCEPT ![k] = Tail(@)]
    /\ acksRead' = [acksRead EXCEPT ![k] = @ + 1]
    /\ elapsed' = [elapsed EXCEPT ![k] = @ + d]
    /\ IF cpc[k] = "hdrAck"
       THEN /\ Write(k, msg[k])
            /\ wrote' = [wrote EXCEPT ![k] = 2]
            /\ waitArg' = [waitArg EXCEPT ![k] =
                              FrameTimeout(msecsArg[k], elapsed'[k])]
            /\ cpc' = [cpc EXCEPT ![k] = "bodyAck"]
            /\ UNCHANGED <<result, handshaken>>
       ELSE /\ Return(k, "true")
            /\ handshaken' = [handshaken EXCEPT ![k] = TRUE]
            /\ UNCHANGED <<toSrv, written, wrote, waitArg>>
    /\ UNCHANGED <<sock, callKind, callType, msecsArg, msg, startSock,
                   sends, calls>>
    /\ UNCHANGED <<cstate, peerClosed>>
    /\ ServerIdle

\* writeConfirmedFrame's waitForReadyRead returns false: the call fails
AckTimeout(k) ==
    /\ cpc[k] \in {"hdrAck", "bodyAck"}
    /\ toCli[k] = 0
    /\ CanExpire(waitArg[k])
    /\ elapsed' = [elapsed EXCEPT ![k] = @ + Expiry(waitArg[k])]
    /\ Return(k, "false")
    /\ UNCHANGED <<sock, callKind, callType, msecsArg, waitArg, msg,
                   startSock, wrote, acksRead, handshaken, sends, calls>>
    /\ UNCHANGED <<cstate, toSrv, written, toCli, ackLog, peerClosed>>
    /\ ServerIdle

\* the confirmed send of payload P on a connection whose handshake succeeded
CallSend(k, ms, P) ==
    /\ cpc[k] = "done"
    /\ sock[k] = "Connected"
    /\ handshaken[k]
    /\ calls[k] < MaxCalls
    /\ calls' = [calls EXCEPT ![k] = @ + 1]
    /\ sends' = [sends EXCEPT ![k] = @ + 1]
    /\ callKind' = [callKind EXCEPT ![k] = "send"]
    /\ msecsArg' = [msecsArg EXCEPT ![k] = ms]
    /\ elapsed' = [elapsed EXCEPT ![k] = 0]
    /\ startSock' = [startSock EXCEPT ![k] = sock[k]]
    /\ acksRead' = [acksRead EXCEPT ![k] = 0]
    /\ writeConfirmedMessage(k, P, ms, 0)
    /\ UNCHANGED <<sock, callType, handshaken>>
    /\ UNCHANGED <<cstate, toCli, ackLog, peerClosed>>
    /\ ServerIdle

\* the caller tries once more after a confirmed send that returned false
Retry(k, ms, P) ==
    /\ cpc[k] = "done"
    /\ callKind[k] = "send"
    /\ result[k] = "false"
    /\ sock[k] = "Connected"
    /\ calls[k] <= MaxCalls
    /\ calls' = [calls EXCEPT ![k] = @ + 1]
    /\ sends' = [sends EXCEPT ![k] = @ + 1]
    /\ msecsArg' = [msecsArg EXCEPT ![k] = ms]
    /\ elapsed' = [elapsed EXCEPT ![k] = 0]
    /\ startSock' = [startSock EXCEPT ![k] = sock[k]]
    /\ acksRead' = [acksRead EXCEPT ![k] = 0]
    /\ writeConfirmedMessage(k, P, ms, 0)
    /\ UNCHANGED <<sock, callKind, callType, handshaken>>
    /\ UNCHANGED <<cstate, toCli, ackLog, peerClosed>>
    /\ ServerIdle

\* the destructor's socket->close(); delete socket
ClientClose(k) ==
    /\ cpc[k] = "done"
    /\ sock[k] \notin {"null", "closed"}
    /\ sock' = [sock EXCEPT ![k] = "closed"]
    /\ peerClosed' = [peerClosed EXCEPT ![k] = cstate[k] # "none"]
    /\ UNCHANGED <<cpc, callKind, callType, msecsArg, elapsed, waitArg, msg,
                   result, startSock, wrote, acksRead, handshaken, sends,
                   calls>>
    /\ UNCHANGED <<cstate, toSrv, written, toCli, ackLog>>
    /\ ServerIdle

\* the primary's event loop serves connection c
Serve(c) ==
    /\ \/ slotConnectionEstablished(c)
       \/ \E n \in ArrivalSizes(c) : DataArrives(c, n)
       \/ Disconnected(c)
    /\ UNCHANGED cliVars

------------------------------------------------------------------------------
(* The rendezvous name: genBlockServerName.  Strings are sequences of      *)
(* bytes (the UTF-8 of ASCII text); a Base64 character is its index in the *)
(* RFC 2045 alphabet.                                                      *)

\* the longest identity string of the model
MaxStr == 2

\* the two processes whose names are compared
AppProcs == {1, 2}

\* the letter "a"
Letters == {97}

Strings == UNION {[1..n -> Letters] : n \in 0..MaxStr}

ShortStrings == {s \in Strings : Len(s) <= 1}

\* "SingleApplication", the 17 bytes hashed first
Prefix == <<83, 105, 110, 103, 108, 101, 65, 112, 112, 108, 105, 99, 97,
            116, 105, 111, 110>>

\* what a process is configured with
Configs ==
    [applicationName : Strings,
     organizationName : Strings,
     organizationDomain : ShortStrings,
     appDataList : {<<>>, <<<<97>>>>},
     applicationVersion : ShortStrings,
     applicationFilePath : {<<97>>},
     excludeAppVersion : BOOLEAN,
     excludeAppPath : BOOLEAN,
     userMode : BOOLEAN]

\* a process that has not been configured
BlankConfig ==
    [applicationName |-> <<>>, organizationName |-> <<>>,
     organizationDomain |-> <<>>, appDataList |-> <<>>,
     applicationVersion |-> <<>>, applicationFilePath |-> <<>>,
     excludeAppVersion |-> FALSE, excludeAppPath |-> FALSE,
     userMode |-> FALSE]

RECURSIVE Join(_)
\* appDataList.join(u"")
Join(list) == IF list = <<>> THEN <<>> ELSE Head(list) \o Join(Tail(list))

\* the bytes genBlockServerName feeds to the hash, in addData order
HashedData(c) ==
    Prefix
    \o c.applicationName
    \o c.organizationName
    \o c.organizationDomain
    \o (IF c.appDataList # <<>> THEN Join(c.appDataList) ELSE <<>>)
    \o (IF ~c.excludeAppVersion THEN c.applicationVersion ELSE <<>>)
    \o (IF ~c.excludeAppPath THEN c.applicationFilePath ELSE <<>>)
    \o (IF c.userMode THEN <<getUsername>> ELSE <<>>)

\* appData.result(): the digest, taken as injective on the bytes it is fed
\* (the model's digest is those bytes after their count)
HashResult(data) == <<Len(data) % 256>> \o data

\* the Base64 padding character '=', the character '/' and its replacement '_'
Base64Pad == 64
Base64Slash == 63
Underscore == 65

RECURSIVE toBase64(_)
\* QByteArray::toBase64(): three bytes give four characters, the rest is padded
toBase64(b) ==
    IF Len(b) = 0 THEN <<>>
    ELSE IF Len(b) = 1
    THEN <<b[1] \div 4, (b[1] % 4) * 16, Base64Pad, Base64Pad>>
    ELSE IF Len(b) = 2
    THEN <<b[1] \div 4, (b[1] % 4) * 16 + b[2] \div 16, (b[2] % 16) * 4,
           Base64Pad>>
    ELSE <<b[1] \div 4, (b[1] % 4) * 16 + b[2] \div 16,
           (b[2] % 16) * 4 + b[3] \div 64, b[3] % 64>>
         \o toBase64(SubSeq(b, 4, Len(b)))

\* .replace("/", "_")
ReplaceSlash(t) == [j \in 1..Len(t) |-> IF t[j] = Base64Slash THEN Underscore
                                                              ELSE t[j]]

\* the blockServerName of a process configured with c
ServerNameOf(c) == ReplaceSlash(toBase64(HashResult(HashedData(c))))

\* genBlockServerName() in process p, configured with c
genBlockServerName(p, c) ==
    /\ derivedName[p] = <<>>
    /\ appConfig' = [appConfig EXCEPT ![p] = c]
    /\ derivedName' = [derivedName EXCEPT ![p] = ServerNameOf(c)]

\* the name is not looked at: every process uses blockServerName
NoNames ==
    /\ appConfig = [p \in AppProcs |-> BlankConfig]
    /\ derivedName = [p \in AppProcs |-> <<>>]

------------------------------------------------------------------------------
(* Specifications *)

\* nothing has travelled yet
NoTraffic ==
    /\ cstate = [c \in Conns |-> "none"]
    /\ info = [c \in Conns |-> NewConnectionInfo]
    /\ toSrv = [c \in Conns |-> <<>>]
    /\ buf = [c \in Conns |-> <<>>]
    /\ peerClosed = [c \in Conns |-> FALSE]
    /\ ackCount = [c \in Conns |-> 0]
    /\ toCli = [c \in Conns |-> 0]
    /\ ackLog = [c \in Conns |-> <<>>]
    /\ started = [c \in Conns |-> 0]
    /\ received = [c \in Conns |-> <<>>]
    /\ hsType = [c \in Conns |-> -1]
    /\ hsBody = [c \in Conns |-> <<>>]
    /\ written = [c \in Conns |-> <<>>]
    /\ nsent = [c \in Conns |-> 0]
    /\ stalled = [c \in Conns |-> FALSE]
    /\ sent = 0

\* a listening server to which no connection has been made yet
NoConnections ==
    /\ secondaryNotification \in BOOLEAN
    /\ listening = TRUE
    /\ NoTraffic

InitElect ==
    /\ shmExists = FALSE
    /\ attached = {}
    /\ lockOwner = 0
    /\ inst = ZeroBlock
    /\ pc = [p \in Procs |-> "init"]
    /\ server = [p \in Procs |-> FALSE]
    /\ instanceNumber = [p \in Procs |-> 0]
    /\ electOrder = <<>>
    /\ vacant = FALSE
    /\ firstAfter = [p \in Procs |-> FALSE]
    /\ aloneThen = [p \in Procs |-> FALSE]

\* no primary has crashed
NoHistory ==
    /\ beforeCrash = {}
    /\ lastRead = [p \in Procs |-> <<>>]

\* no connector has been used yet
NoCalls ==
    /\ sock = [k \in Conns |-> "null"]
    /\ cpc = [k \in Conns |-> "idle"]
    /\ callKind = [k \in Conns |-> "none"]
    /\ callType = [k \in Conns |-> InvalidConnection]
    /\ msecsArg = [k \in Conns |-> 0]
    /\ elapsed = [k \in Conns |-> 0]
    /\ waitArg = [k \in Conns |-> 0]
    /\ msg = [k \in Conns |-> <<>>]
    /\ result = [k \in Conns |-> "none"]
    /\ startSock = [k \in Conns |-> "null"]
    /\ wrote = [k \in Conns |-> 0]
    /\ acksRead = [k \in Conns |-> 0]
    /\ handshaken = [k \in Conns |-> FALSE]
    /\ sends = [k \in Conns |-> 0]
    /\ calls = [k \in Conns |-> 0]

\* nothing has been launched yet; a listener, once there, gets connections
InitQuiet ==
    /\ InitElect
    /\ NoConnections
    /\ NoCalls
    /\ NoNames
    /\ NoHistory

NextElect ==
    /\ \E p \in Procs :
          \/ Create(p)
          \/ Attach(p)
          \/ ElectPrimary(p)
          \/ Lock(p)
          \/ ElectSecondary(p)
          \/ Unlock(p)
          \/ DtorLock(p)
          \/ DtorFinish(p)
    /\ UNCHANGED <<srvVars, cliVars, nameVars, historyVars>>

SpecElect == InitQuiet /\ [][NextElect]_vars


NextServer ==
    /\ \E c \in Peers :
          \/ PeerConnect(c)
          \/ \E f \in PeerFrames(c, nsent[c] + 1) : PeerSend(c, f)
          \/ PeerClose(c)
          \/ slotConnectionEstablished(c)
          \/ \E n \in ArrivalSizes(c) : DataArrives(c, n)
          \/ \E n \in ArrivalSizes(c) : ChecksumOverrun(c, n)
          \/ Disconnected(c)
          \/ Destroyed(c)
    /\ UNCHANGED <<electVars, cliVars, nameVars, historyVars>>

SpecServer == InitQuiet /\ [][NextServer]_vars

\* the election is over: the last process is the primary and every other
\* process a secondary, in the order of their numbers; the primary is alive,
\* or it has run its destructor since
Linked(alive) ==
    /\ shmExists = TRUE
    /\ attached = (IF alive THEN Procs ELSE Conns)
    /\ lockOwner = 0
    /\ inst = LET b == [primary |-> alive, secondary |-> MaxProcs - 1,
                        primaryPid |-> IF alive THEN MaxProcs ELSE -1,
                        primaryUser |-> IF alive THEN getUsername ELSE 0,
                        checksum |-> 0]
              IN  [b EXCEPT !.checksum = blockChecksum(b)]
    /\ pc = [p \in Procs |-> IF p \in Conns THEN "secondary"
                              ELSE IF alive THEN "primary" ELSE "exited"]
    /\ server = [p \in Procs |-> alive /\ p = MaxProcs]
    /\ instanceNumber = [p \in Procs |-> IF p \in Conns THEN p ELSE 0]
    /\ electOrder = [i \in Conns |-> i]
    /\ vacant = ~alive
    /\ firstAfter = [p \in Procs |-> FALSE]
    /\ aloneThen = [p \in Procs |-> p = MaxProcs]

\* the timed connector of one secondary against a primary that listens or
\* has gone
InitLink ==
    /\ \E alive \in BOOLEAN : Linked(alive) /\ listening = alive
    /\ secondaryNotification \in BOOLEAN
    /\ NoTraffic
    /\ NoCalls
    /\ NoNames
    /\ NoHistory

NextLink ==
    /\ \E k \in Peers :
          \/ \E ms \in Timeouts, t \in ConnectionTypes : CallConnect(k, ms, t)
          \/ \E d \in Sleeps, s \in {"Connected", "Connecting", "Unconnected"} :
                LoopStep(k, d, s)
          \/ WaitConnected(k)
          \/ WaitConnectedTimeout(k)
          \/ \E d \in AckDelays : ReadAck(k, d)
          \/ AckTimeout(k)
          \/ \E ms \in Timeouts, P \in Payloads : CallSend(k, ms, P)
          \/ ClientClose(k)
          \/ Serve(k)
    /\ UNCHANGED <<electVars, nameVars, historyVars>>

SpecLink == InitLink /\ [][NextLink]_vars

\* patient connectors of all secondaries against a live primary: the budget
\* is so large that no wait expires before the primary's event loop answers
InitLive ==
    /\ Linked(TRUE)
    /\ NoConnections
    /\ NoCalls
    /\ NoNames
    /\ NoHistory

ConnectorStep(k) ==
    \/ \E d \in Sleeps, s \in {"Connected", "Connecting"} : LoopStep(k, d, s)
    \/ WaitConnected(k)
    \/ ReadAck(k, 0)

NextLive ==
    /\ \E k \in Conns :
          \/ \E t \in ConnectionTypes : CallConnect(k, Patient, t)
          \/ ConnectorStep(k)
          \/ \E P \in Payloads : CallSend(k, Patient, P)
          \/ ClientClose(k)
          \/ Serve(k)
    /\ UNCHANGED <<electVars, nameVars, historyVars>>

\* a running call is not suspended forever, and the primary's event loop
\* keeps serving every connection
Fairness ==
    \A k \in Conns :
        /\ WF_vars(ConnectorStep(k) /\ UNCHANGED <<electVars, nameVars, historyVars>>)
        /\ WF_vars(Serve(k) /\ UNCHANGED <<electVars, nameVars, historyVars>>)

SpecLive == InitLive /\ [][NextLive]_vars /\ Fairness

\* two processes are configured and derive their names
InitName ==
    /\ InitElect
    /\ secondaryNotification = FALSE
    /\ listening = FALSE
    /\ NoTraffic
    /\ NoCalls
    /\ NoNames
    /\ NoHistory

NextName ==
    /\ \E p \in AppProcs, c \in Configs : genBlockServerName(p, c)
    /\ UNCHANGED <<electVars, srvVars, cliVars, historyVars>>

SpecName == InitName /\ [][NextName]_vars

\* what the server side keeps besides the listener
connections == <<secondaryNotification, cstate, info, toSrv, buf, peerClosed,
                 ackCount, toCli, ackLog, started, received, hsType, hsBody, written,
                 nsent, stalled, sent>>

\* the region is the one of a primary that crashed
Stale ==
    /\ shmExists
    /\ inst.primary
    /\ inst.primaryPid \in Procs
    /\ pc[inst.primaryPid] = "crashed"

\* processes are launched, elect, exit, and once the primary is killed; the
\* listener exists exactly while a process with a server lives
InitStale ==
    /\ InitElect
    /\ secondaryNotification = FALSE
    /\ listening = FALSE
    /\ NoTraffic
    /\ NoCalls
    /\ NoNames
    /\ NoHistory

NextStale ==
    \/ /\ \E p \in Procs :
             \/ Create(p)
             \/ Attach(p)
             \/ ElectPrimary(p)
             \/ Lock(p)
             \/ ElectSecondary(p)
             \/ Unlock(p)
             \/ DtorLock(p)
             \/ DtorFinish(p)
       /\ listening' = (\E q \in Procs : server'[q])
       /\ UNCHANGED <<connections, cliVars, nameVars, historyVars>>
    \/ /\ \E p \in Procs, kept \in BOOLEAN : Crash(p, kept)
       /\ listening' = (\E q \in Procs : server'[q])
       /\ UNCHANGED <<connections, cliVars, nameVars>>
    \/ /\ Stale
       /\ \E k \in Conns :
             \/ \E ms \in Timeouts, t \in ConnectionTypes : CallConnect(k, ms, t)
             \/ \E d \in Sleeps : LoopStep(k, d, "Unconnected")
       /\ UNCHANGED <<electVars, nameVars, historyVars>>

SpecStale == InitStale /\ [][NextStale]_vars

\* election, the readers of the block, and teardown
NextBlock ==
    /\ \E p \in Procs :
          \/ /\ \/ Create(p)
                \/ Attach(p)
                \/ ElectPrimary(p)
                \/ Lock(p)
                \/ ElectSecondary(p)
                \/ Unlock(p)
                \/ DtorLock(p)
                \/ DtorFinish(p)
             /\ UNCHANGED lastRead
          \/ \E f \in {"readPid", "readUser"} : ReadLock(p, f)
          \/ primaryPid(p)
          \/ primaryUser(p)
    /\ UNCHANGED <<srvVars, cliVars, nameVars, beforeCrash>>

SpecBlock == InitQuiet /\ [][NextBlock]_vars

\* ---- two connections: the first is made by a peer that may stop writing at
\* any point, the second by the connector of a secondary, after the first
\* was accepted
StallingConn == 1
LaterConn == 2

\* what the stalling peer writes, as far as it gets
StallFrames(k) ==
    IF k % 2 = 1
    THEN {HeaderOf(InitMessage(blockServerName, NewInstance, StallingConn))}
    ELSE IF k = 2
    THEN {InitMessage(blockServerName, NewInstance, StallingConn)}
    ELSE {PeerPayload}

InitPair ==
    /\ Linked(TRUE)
    /\ secondaryNotification = TRUE
    /\ listening = TRUE
    /\ NoTraffic
    /\ NoCalls
    /\ NoNames
    /\ NoHistory

Accepted(c) == cstate[c] \in {"open", "closed", "gone"}

StallingStep ==
    /\ \/ PeerConnect(StallingConn)
       \/ \E f \in StallFrames(nsent[StallingConn] + 1) :
             PeerSend(StallingConn, f)
       \/ PeerClose(StallingConn)
       \/ slotConnectionEstablished(StallingConn)
       \/ \E n \in ArrivalSizes(StallingConn) : DataArrives(StallingConn, n)
       \/ Disconnected(StallingConn)
    /\ UNCHANGED cliVars

LaterCall ==
    /\ Accepted(StallingConn)
    /\ \/ \E t \in ConnectionTypes : CallConnect(LaterConn, Patient, t)
       \/ CallSend(LaterConn, Patient, PeerPayload)

NextPair ==
    /\ \/ StallingStep
       \/ LaterCall
       \/ ConnectorStep(LaterConn)
       \/ Serve(LaterConn)
    /\ UNCHANGED <<electVars, nameVars, historyVars>>

\* the later connection's call is not suspended forever and the event loop
\* keeps serving it; nothing is assumed of the stalling connection
FairLater ==
    /\ WF_vars(ConnectorStep(LaterConn)
                 /\ UNCHANGED <<electVars, nameVars, historyVars>>)
    /\ WF_vars(Serve(LaterConn)
                 /\ UNCHANGED <<electVars, nameVars, historyVars>>)

SpecPair == InitPair /\ [][NextPair]_vars /\ FairLater

\* the timed connector of one secondary whose caller retries a failed send
NextRetry ==
    \/ NextLink
    \/ /\ \E k \in Peers, ms \in Timeouts, P \in Payloads : Retry(k, ms, P)
       /\ UNCHANGED <<electVars, nameVars, historyVars>>

SpecRetry == InitLink /\ [][NextRetry]_vars

------------------------------------------------------------------------------
(* Claims on the election *)

Elected(p) == pc[p] \in {"primary", "secondary", "dtor", "exited"}
HoldsPrimary(p) == server[p] /\ pc[p] # "exited"
IsSecondary(p) == pc[p] \in {"secondary", "dtor"} /\ ~server[p]

\* C1: in every reachable state at most one process holds the primary role,
\* and once all processes have finished election (none has torn down yet)
\* exactly one of them is primary and all the others are secondaries.
C1_OnePrimary ==
    /\ Cardinality({p \in Procs : HoldsPrimary(p)}) <= 1
    /\ (\A p \in Procs : pc[p] \in {"primary", "secondary"})
          => /\ Cardinality({p \in Procs : HoldsPrimary(p)}) = 1
             /\ Cardinality({p \in Procs : IsSecondary(p)}) = MaxProcs - 1

C1_Witness ==
    /\ \A p \in Procs : pc[p] \in {"primary", "secondary"}
    /\ \E p \in Procs : HoldsPrimary(p)

\* C2: the k-th process to run startSecondary on a region records
\* instanceNumber k: the count right after its own increment, at least 1,
\* different from every other secondary's of that region and greater than
\* that of every secondary that elected before it.
C2_InstanceNumbers ==
    /\ \A i \in 1..Len(electOrder) : instanceNumber[electOrder[i]] = i
    /\ \A i, j \in 1..Len(electOrder) :
          i < j => instanceNumber[electOrder[i]] < instanceNumber[electOrder[j]]
    /\ (shmExists /\ lockOwner = 0) => inst.secondary = Len(electOrder)

C2_Witness ==
    /\ Len(electOrder) >= 2
    /\ instanceNumber[electOrder[2]] = 2

------------------------------------------------------------------------------
(* Claims on the primary's handling of its connections *)

\* the body of the peer's first message: the N bytes that follow its first
\* header, N being the length that header announces (<<>> while incomplete)
HandshakeWritten(c) ==
    LET w == written[c]
    IN  IF Len(w) >= HeaderSize
           /\ UnsignedAtMost(SubSeq(w, 1, HeaderSize), Len(w) - HeaderSize)
        THEN SubSeq(w, HeaderSize + 1,
                    HeaderSize + BEValue(SubSeq(w, 6, HeaderSize)))
        ELSE <<>>

\* a well-formed handshake body that names another server, or whose checksum
\* field differs from the checksum of the bytes before it
Mismatch(h) ==
    LET m == ParseInitMessage(h)
    IN  /\ m.ok
        /\ \/ m.name # blockServerName
           \/ m.checksum # qChecksum(SubSeq(h, 1, 9 + Len(m.name)))

\* C5: a handshake with a wrong checksum or a foreign name is never
\* acknowledged (only its header is), raises no instanceStarted, leaves the
\* connection in an Init stage with instanceId 0, and nothing of that
\* connection is ever delivered to the owner.
C5_Original ==
    \A c \in Conns :
        Mismatch(HandshakeWritten(c)) =>
            /\ ackCount[c] <= 1
            /\ started[c] = 0
            /\ info[c].stage \in {StageInitHeader, StageInitBody}
            /\ info[c].instanceId = 0
            /\ received[c] = <<>>

\* C6: while a connection waits for a body of announced length N, nothing
\* happens on it (no stage change, no ack, no signal) in a step in which
\* fewer than N bytes are available, N read as an unsigned 64-bit length.
C6_Original ==
    [][\A c \in Conns :
          ( /\ cstate[c] = "open"
            /\ info[c].stage \in {StageInitBody, StageConnectedBody}
            /\ \/ info'[c].stage # info[c].stage
               \/ ackCount'[c] # ackCount[c]
               \/ started'[c] # started[c]
               \/ received'[c] # received[c] )
          => UnsignedAtMost(info[c].msgLen,
                            Len(buf[c]) + Len(toSrv[c]) - Len(toSrv'[c]))]_vars

\* C9: a connection has raised instanceStarted exactly once if its handshake
\* validated with type NewInstance, or with type SecondaryInstance while the
\* SecondaryNotification option is set, and never otherwise: not for another
\* type, not before the handshake, not for a payload frame.
C9_InstanceStarted ==
    \A c \in Conns :
        started[c] = IF \/ hsType[c] = NewInstance
                        \/ hsType[c] = SecondaryInstance /\ secondaryNotification
                     THEN 1 ELSE 0

C9_Witness ==
    \E c \in Conns :
        /\ hsType[c] = SecondaryInstance
        /\ secondaryNotification
        /\ started[c] = 1
        /\ Len(received[c]) = 1

------------------------------------------------------------------------------
(* Claims on the connector *)

InCall(k) == cpc[k] \in {"loop", "waitConn", "hdrAck", "bodyAck"}

\* the primary has raised receivedMessage for each send of connector k so
\* far, the last one with k's instanceNumber and the bytes of the send
Delivered(k) ==
    /\ Len(received[k]) = sends[k]
    /\ received[k][sends[k]] = <<instanceNumber[k], msg[k]>>

\* C4: every payload P, the empty one included, that a secondary sends with
\* the confirmed send after its handshake is delivered exactly once, with the
\* sender's instanceNumber and the bytes of P: not before the payload frame
\* is written, and as soon as all written bytes have reached the primary;
\* the send returns true.
C4_Original ==
    \A k \in Conns :
        callKind[k] = "send" =>
            /\ cpc[k] = "hdrAck" => Len(received[k]) = sends[k] - 1
            /\ cpc[k] = "bodyAck" /\ toSrv[k] = <<>> => Delivered(k)
            /\ cpc[k] = "done" => result[k] = "true" /\ Delivered(k)

\* C7: under fairness, every connectToPrimary call that a secondary has
\* started against the live primary, whatever the other secondaries do at
\* the same time, eventually returns true, within its timeout.
C7_AllConnect ==
    \A k \in Conns :
        (callKind[k] = "connect" /\ InCall(k))
            ~> ( /\ callKind[k] = "connect"
                 /\ cpc[k] = "done"
                 /\ result[k] = "true"
                 /\ elapsed[k] <= msecsArg[k] )

\* all secondaries called at the same instant, slept equally long, and each
\* has completed its handshake
C7_Witness ==
    \A k \in Conns :
        /\ callKind[k] = "connect"
        /\ calls[k] = 1
        /\ cpc[k] = "done"
        /\ result[k] = "true"
        /\ acksRead[k] = 2
        /\ elapsed[k] = SleepMin

\* C8: connectToPrimary returns true only if during that call both frames
\* of the handshake were written and both acks were read, within the
\* timeout, whatever state the socket was in when the call started.
C8_Original ==
    \A k \in Conns :
        callKind[k] = "connect" /\ cpc[k] = "done" /\ result[k] = "true" =>
            /\ wrote[k] = 2
            /\ acksRead[k] = 2
            /\ elapsed[k] <= msecsArg[k]

\* C10: a connectToPrimary call with msecs >= 0 that ends after more than
\* msecs milliseconds returns false, and none of its waits is unbounded.
C10_Original ==
    \A k \in Conns :
        callKind[k] = "connect" =>
            /\ cpc[k] = "done" /\ elapsed[k] > msecsArg[k] =>
                  result[k] = "false"
            /\ cpc[k] \in {"waitConn", "hdrAck", "bodyAck"} =>
                  CanExpire(waitArg[k])

------------------------------------------------------------------------------
(* Claims on the rendezvous name *)

\* the components the name is derived from: a component that the options
\* leave out counts as empty
Components(c) ==
    <<c.applicationName, c.organizationName, c.organizationDomain,
      c.appDataList,
      IF c.excludeAppVersion THEN <<>> ELSE c.applicationVersion,
      IF c.excludeAppPath THEN <<>> ELSE c.applicationFilePath,
      IF c.userMode THEN <<getUsername>> ELSE <<>>>>

\* C11: with the digest injective, two processes derive equal names if
\* their components are identical, and different names if they differ in
\* any component.
C11_Original ==
    \A p, q \in AppProcs :
        derivedName[p] # <<>> /\ derivedName[q] # <<>> =>
            ( derivedName[p] = derivedName[q]
                <=> Components(appConfig[p]) = Components(appConfig[q]) )

------------------------------------------------------------------------------
(* Claims on a primary that terminated without teardown *)

\* launched after the primary crashed
LaunchedAfter(p) == beforeCrash # {} /\ p \notin beforeCrash /\ pc[p] # "init"

\* a process that holds or is about to take the primary role
TakesPrimary(p) == server[p] \/ pc[p] \in {"creator", "primaryLocked", "primary"}

\* a connectToPrimary call of k has returned
ConnectDone(k) == callKind[k] = "connect" /\ cpc[k] = "done"

\* C12 as claimed: after the primary terminated without teardown no process
\* launched afterwards becomes primary, and every connectToPrimary of such a
\* process returns false after its timeout.
C12_Original ==
    \A p \in Procs :
        LaunchedAfter(p) =>
            /\ ~TakesPrimary(p)
            /\ (p \in Conns /\ ConnectDone(p)) =>
                  result[p] = "false" /\ elapsed[p] >= msecsArg[p]

\* C12 amended: while the region of the crashed primary exists, its block
\* keeps isPrimary = true and the dead primary's pid, no process launched
\* after the crash holds the primary role, and every connectToPrimary such a
\* process has made returned false no sooner than its timeout.
C12_StalePrimary ==
    /\ [][ /\ (\E q \in Procs : pc[q] = "primary" /\ pc'[q] = "crashed")
              /\ shmExists' => Stale'
           /\ Stale /\ shmExists' =>
                 Stale' /\ inst'.primaryPid = inst.primaryPid ]_vars
    /\ [](Stale =>
            \A p \in Procs :
                LaunchedAfter(p) /\ Alive(p) =>
                    /\ ~TakesPrimary(p)
                    /\ (p \in Conns /\ ConnectDone(p)) =>
                          result[p] = "false" /\ elapsed[p] >= msecsArg[p])

C12_Witness ==
    /\ Stale
    /\ \E p \in Conns :
          /\ LaunchedAfter(p)
          /\ pc[p] = "secondary"
          /\ ConnectDone(p)
          /\ msecsArg[p] > 0
          /\ result[p] = "false"

------------------------------------------------------------------------------
(* Claims on the shared block *)

\* between memory->lock() and memory->unlock(), or creating the region
Accessing(p) ==
    pc[p] \in {"creator", "locked", "primaryLocked", "secondaryLocked", "dtor",
               "readPid", "readUser"}

\* C13: a process that is between lock and unlock of the block holds its
\* lock, so no two processes are there at once; every change of a field of
\* an existing block and every read of primaryPid or primaryUser is a step
\* of the process that holds the lock.
C13_LockedAccess ==
    /\ [](\A p \in Procs : Accessing(p) => lockOwner = p)
    /\ [](Cardinality({p \in Procs : Accessing(p)}) <= 1)
    /\ [][ /\ (shmExists /\ inst' # inst) =>
                 lockOwner \in Procs /\ pc'[lockOwner] # pc[lockOwner]
           /\ \A p \in Procs : lastRead'[p] # lastRead[p] => lockOwner = p
         ]_vars

\* a secondary reads the pid while another process waits for the lock
C13_Witness ==
    \E p, q \in Procs :
        /\ pc[p] = "readPid"
        /\ pc[q] = "attached"
        /\ lastRead[p] = <<"user", getUsername>>

\* the checksum field is the checksum of the fields before it
ChecksumValid(b) == b.checksum = blockChecksum(b)

C15_Teardown ==
    [][ \A p \in Procs :
          (pc[p] = "dtor" /\ pc'[p] = "exited") =>
              IF server[p]
              THEN /\ ~server'[p]
                   /\ ~inst'.primary
                   /\ inst'.primaryPid = -1
                   /\ inst'.primaryUser = 0
                   /\ ChecksumValid(inst')
                   /\ inst'.secondary = inst.secondary
              ELSE inst' = inst /\ server' = server ]_vars

\* the primary has torn down while a secondary lives on; another secondary
\* has torn down too
C15_Witness ==
    /\ vacant
    /\ shmExists
    /\ inst.primaryPid = -1
    /\ inst.secondary = 2
    /\ Cardinality({p \in Procs : pc[p] = "exited"}) = 2

------------------------------------------------------------------------------
(* Claims on concurrent connections *)

\* the connections whose entry of the map, unread bytes or signals change
Touched ==
    {c \in Conns : \/ info'[c] # info[c]
                   \/ cstate'[c] # cstate[c]
                   \/ buf'[c] # buf[c]
                   \/ ackCount'[c] # ackCount[c]
                   \/ started'[c] # started[c]
                   \/ received'[c] # received[c]}

\* C16: every step changes the state of at most one connection; and
\* whatever a connection accepted earlier does or fails to do, a handshake
\* started on the later connection completes and a payload sent on it is
\* delivered.
C16_Independent ==
    /\ [][Cardinality(Touched) <= 1]_vars
    /\ (callKind[LaterConn] = "connect" /\ InCall(LaterConn))
          ~> (cpc[LaterConn] = "done" /\ result[LaterConn] = "true")
    /\ (callKind[LaterConn] = "send" /\ InCall(LaterConn))
          ~> ( /\ callKind[LaterConn] = "send"
               /\ cpc[LaterConn] = "done"
               /\ result[LaterConn] = "true"
               /\ Delivered(LaterConn) )

\* the earlier connection waits with half a header unread while the later
\* one has delivered its payload
C16_Witness ==
    /\ cstate[StallingConn] = "open"
    /\ info[StallingConn].stage = StageInitHeader
    /\ Len(buf[StallingConn]) = MaxPart
    /\ callKind[LaterConn] = "send"
    /\ cpc[LaterConn] = "done"
    /\ Delivered(LaterConn)

------------------------------------------------------------------------------
(* Claims on the sender's ordering *)

\* this step writes the header frame of a message of connector k
WritesHeader(k) == cpc[k] # "hdrAck" /\ cpc'[k] = "hdrAck"

\* this step writes the body frame of a message of connector k
WritesBody(k) == cpc[k] = "hdrAck" /\ cpc'[k] = "bodyAck"

\* C17: the header is the first frame a call writes; the body is written
\* only in the step that reads the header's ack; a call that got no ack of
\* its header returns false with the header as its only frame; and no header
\* is written while a frame written before it is still without its ack.
C17_Original ==
    [][ \A k \in Conns :
          /\ WritesHeader(k) =>
                 /\ wrote'[k] = 1
                 /\ wrote[k] = acksRead[k] \/ cpc[k] \in {"loop", "waitConn"}
          /\ WritesBody(k) =>
                 wrote[k] = 1 /\ wrote'[k] = 2 /\ acksRead'[k] = 1
          /\ (cpc[k] = "hdrAck" /\ cpc'[k] = "done") =>
                 result'[k] = "false" /\ wrote'[k] = 1 /\ acksRead'[k] = 0
      ]_vars

------------------------------------------------------------------------------
(* Claims on the receiver *)

\* the bytes of connection c that have reached the primary
Arrived(c) == SubSeq(written[c], 1, Len(written[c]) - Len(toSrv[c]))

\* a handshake body the validation accepts
ValidHandshake(b) ==
    LET m == ParseInitMessage(b)
    IN  m.ok /\ m.name = blockServerName /\ m.checksum = actualChecksum(b)

\* the frames that are complete in the byte stream w, read as the protocol
\* prescribes: headers of HeaderSize bytes and bodies of the announced
\* length in turn; k is the number of the frame w starts with, len8 the
\* header before it; a rejected handshake body ends the count
RECURSIVE FramesIn(_, _, _)
FramesIn(w, k, len8) ==
    IF k % 2 = 1
    THEN IF Len(w) < HeaderSize THEN 0
         ELSE 1 + FramesIn(SubSeq(w, HeaderSize + 1, Len(w)), k + 1,
                           SubSeq(w, 1, HeaderSize))
    ELSE IF ~UnsignedAtMost(len8, Len(w)) THEN 0
         ELSE LET n == BEValue(SubSeq(len8, 6, HeaderSize))
              IN  IF k = 2 /\ ~ValidHandshake(SubSeq(w, 1, n)) THEN 0
                  ELSE 1 + FramesIn(SubSeq(w, n + 1, Len(w)), k + 1, len8)

\* C18: on an open connection the primary has written as many ack bytes
\* as frames (headers and accepted bodies) have completely arrived, and
\* the close of a connection, at which nothing arrives, adds no ack.
C18_Original ==
    /\ [](\A c \in Conns :
            cstate[c] = "open" =>
                ackCount[c] = FramesIn(Arrived(c), 1, <<>>))
    /\ [][\A c \in Conns :
            (cstate[c] = "open" /\ cstate'[c] = "gone") =>
                ackCount'[c] = ackCount[c]]_vars

\* the stage changes the protocol allows
StageMoves ==
    {<<StageInitHeader, StageInitBody>>, <<StageInitBody, StageConnectedHeader>>,
     <<StageConnectedHeader, StageConnectedBody>>,
     <<StageConnectedBody, StageConnectedHeader>>}

InitStages == {StageInitHeader, StageInitBody}

\* C19: an accepted connection starts in StageInitHeader with instanceId 0;
\* from then on, up to and including its close, its stage changes only
\* along InitHeader -> InitBody -> ConnectedHeader -> ConnectedBody ->
\* ConnectedHeader, its instanceId is 0 in both Init stages and changes only
\* in the step from InitBody to ConnectedHeader.
C19_Original ==
    /\ [](\A c \in Conns :
            (cstate[c] = "open" /\ info[c].stage \in InitStages) =>
                info[c].instanceId = 0)
    /\ [][\A c \in Conns :
            /\ (cstate[c] = "backlog" /\ cstate'[c] = "open") =>
                  info'[c].stage = StageInitHeader /\ info'[c].instanceId = 0
            /\ cstate[c] = "open" =>
                  /\ info'[c].stage # info[c].stage =>
                        <<info[c].stage, info'[c].stage>> \in StageMoves
                  /\ info'[c].instanceId # info[c].instanceId =>
                        /\ info[c].stage = StageInitBody
                        /\ info'[c].stage = StageConnectedHeader
         ]_vars

\* C20: the step that closes connection c raises at most one
\* receivedMessage: none if no bytes are unread, and otherwise one, with the
\* connection's instanceId and exactly the unread bytes, whenever these are
\* at least as many as the last header announced; with that step or the
\* socket's destruction the entry leaves the map, and nothing is delivered
\* for the connection afterwards.
C20_DrainOnClose ==
    [][\A c \in Conns :
        /\ (cstate[c] = "open" /\ cstate'[c] \in {"closed", "gone"}) =>
              /\ received'[c] \in
                    {received[c],
                     Append(received[c], <<info[c].instanceId, buf[c]>>)}
              /\ (cstate'[c] = "gone" /\ buf[c] = <<>>) =>
                    received'[c] = received[c]
              /\ ( /\ cstate'[c] = "gone"
                   /\ buf[c] # <<>>
                   /\ UnsignedAtMost(info[c].msgLen, Len(buf[c])) ) =>
                    received'[c] # received[c]
        /\ cstate[c] \in {"closed", "gone"} =>
              /\ received'[c] = received[c]
              /\ cstate'[c] = "gone"
      ]_vars

\* a validated connection was closed by its peer with a whole payload
\* unread, which the close delivered: its ack was written to the closing
\* socket
C20_Witness ==
    \E c \in Conns :
        /\ cstate[c] = "gone"
        /\ info[c].instanceId = c
        /\ received[c] = <<<<c, PeerPayload>>>>
        /\ toCli[c] < ackCount[c]

\* the handshake of connection c has been validated
Validated(c) == hsType[c] # -1

\* C21: receivedMessage has been raised for a connection only if its
\* handshake was validated; a connection that closes before it completes
\* the handshake has caused no receivedMessage.
C21_Original ==
    \A c \in Conns : received[c] # <<>> => Validated(c)

\* the payload of the receivedMessage raised last on connection c
LastPayload(c) == received'[c][Len(received'[c])][2]

\* C22: whenever a step hands a payload to the owner, the payload has
\* exactly the length the header last read on that connection announced.
C22_Original ==
    [][\A c \in Conns :
        received'[c] # received[c] =>
            /\ UnsignedAtMost(info[c].msgLen, Len(LastPayload(c)))
            /\ BEValue(SubSeq(info[c].msgLen, 6, HeaderSize)) = Len(LastPayload(c))
      ]_vars

\* writeConfirmedFrame returns true on connector k: it reads one ack byte
ConsumesAck(k) == acksRead'[k] = acksRead[k] + 1

\* C23: whenever writeConfirmedFrame returns true, the ack byte it consumed
\* was written by the receiver after all the bytes of the frame the call
\* wrote had reached it; an ack written before that, in response to an
\* earlier frame, is never counted as the ack of this frame.
C23_Original ==
    [][\A k \in Conns :
        ConsumesAck(k) => Head(ackLog[k]) >= Len(written[k])]_vars

\* a step reads the handshake body of connection c
ReadsBody(c) == info[c].stage = StageInitBody /\ hsBody'[c] # hsBody[c]

\* C24: whenever the server reads a handshake body of length L, the length
\* over which it recomputes the checksum is within 0..L, and a body shorter
\* than the checksum field is rejected: its socket is closed, no ack is
\* written and no instanceStarted is raised.
C24_Original ==
    [][\A c \in Conns :
        ReadsBody(c) =>
            /\ WithinBytes(ChecksumLength(hsBody'[c]), Len(hsBody'[c]))
            /\ Len(hsBody'[c]) < ChecksumSize =>
                  /\ cstate'[c] = "closed"
                  /\ ackCount'[c] = ackCount[c]
                  /\ started'[c] = started[c]]_vars

====
